---- MODULE Spec2Model ----
(***************************************************************************)
(* ProductImporter: the CSV import pipeline (server/app/tasks.py,          *)
(* server/app/preprocesscsv.py, server/app/api/imports.py) as a state      *)
(* machine over the import_jobs, products and products_staging tables.     *)
(***************************************************************************)
EXTENDS Integers, Sequences, FiniteSets, TLC

\* ---------------------------------------------------------------- bounds
\* Rows per COPY chunk; the source uses 50000 (tasks.py:186), scaled down so
\* that a file of three rows needs a full chunk and a final partial chunk.
batch_size == 2
\* Skipped-row progress checkpoint period; the source uses 1000
\* (tasks.py:272), scaled down likewise.
skip_checkpoint == 2

\* The import jobs that may be uploaded: two, so that independent jobs can
\* run concurrently.
Jobs == {1, 2}

\* ------------------------------------------------------------ text model
\* str.strip(): the model's texts carry at most trailing blanks.
Strip(s) ==
  CASE s = "b2 " -> "b2"
    [] s = " " -> ""
    [] OTHER -> s

\* str.lower() on the model's texts.
Lower(s) ==
  CASE s = "A1" -> "a1"
    [] s = "X1" -> "x1"
    [] s = "SKU" -> "sku"
    [] s = "Name" -> "name"
    [] s = "True" -> "true"
    [] s = "False" -> "false"
    [] OTHER -> s

\* bytes.decode('utf-8') of a cell of a file, as open(..., encoding='utf-8')
\* reads it: the three signature bytes EF BB BF decode to the character
\* U+FEFF, which stays in the text (str.strip() does not remove it); the
\* lone byte E9 of a Latin-1 text is not valid UTF-8 and raises
\* UnicodeDecodeError (ok is FALSE). The other texts of the model are ASCII.
decode(s) ==
  CASE s = "<EF BB BF>sku" -> [ok |-> TRUE, text |-> "<U+FEFF>sku"]
    [] s = "caf<E9>" -> [ok |-> FALSE, text |-> ""]
    [] OTHER -> [ok |-> TRUE, text |-> s]

\* Binary (byte) collation of the normalized keys, as sqlite ORDER BY uses.
KeyOrder == <<"a1", "b2", "c3", "x1">>

KeyRank(k) == CHOOSE i \in 1..Len(KeyOrder) : KeyOrder[i] = k

\* list.index(x): position of the first occurrence, 0 when absent.
IndexOf(seq, x) ==
  IF \E i \in 1..Len(seq) : seq[i] = x
  THEN CHOOSE i \in 1..Len(seq) :
         seq[i] = x /\ \A k \in 1..(i - 1) : seq[k] # x
  ELSE 0

\* float(str(price_val).strip().replace("$","").replace(",","")) in cents;
\* ok is FALSE on the ValueError branch.
ParseFloat(s) ==
  CASE s = "9.99" -> [ok |-> TRUE, val |-> 999]
    [] s = "$1,000" -> [ok |-> TRUE, val |-> 100000]
    [] s = "-5" -> [ok |-> TRUE, val |-> -500]
    [] s = "5 " -> [ok |-> TRUE, val |-> 500]
    [] OTHER -> [ok |-> FALSE, val |-> 0]

\* tasks.py:258-266: the price the loader stages.
price_of(price_val) ==
  IF price_val = "None" \/ price_val = ""
  THEN 0
  ELSE IF ParseFloat(price_val).ok THEN ParseFloat(price_val).val ELSE 0

\* tasks.py:217-226: the is_active text handed to COPY; a text outside the
\* recognised variants is passed through unchanged.
is_active_of(v) ==
  IF v = "None" \/ v = "" THEN "True"
  ELSE IF Lower(Strip(v)) \in {"true", "1", "yes", "y"} THEN "True"
  ELSE IF Lower(Strip(v)) \in {"false", "0", "no", "n"} THEN "False"
  ELSE v

\* ------------------------------------------------------------ CSV files
COLUMNS == <<"sku", "name", "description", "price", "is_active">>

sku_column_names == <<"sku", "product_sku", "id", "code">>

\* csv.DictReader: the value under a cleaned header key, "None" when the
\* header has no such column (dict.get).
Get(header, row, key) ==
  LET hn == [i \in 1..Len(header) |-> Lower(Strip(header[i]))]
      i == IndexOf(hn, key)
  IN IF i = 0 \/ i > Len(row) THEN "None" ELSE row[i]

\* A column search that takes the first header column whose name is in the
\* list (header order instead of priority order).
sku_idx_header_order(header) ==
  LET hn == [i \in 1..Len(header) |-> Lower(Strip(header[i]))]
      found == {i \in 1..Len(hn) : IndexOf(sku_column_names, hn[i]) # 0}
  IN IF found = {}
     THEN 0
     ELSE CHOOSE i \in found : \A o \in found : i <= o

\* preprocesscsv.py:62-74: index of the SKU column, 0 when none is found
\* (the ValueError branch).
sku_idx(header) ==
  LET hn == [i \in 1..Len(header) |-> Lower(Strip(header[i]))]
      found == {n \in 1..Len(sku_column_names) : IndexOf(hn, sku_column_names[n]) # 0}
  IN IF found = {}
     THEN 0
     ELSE LET n == CHOOSE m \in found : \A o \in found : m <= o
          IN IndexOf(hn, sku_column_names[n])

\* A deduplicator that keeps the first row of each key (INSERT OR IGNORE).
RECURSIVE dedupe_table_keeps_first(_, _, _)
dedupe_table_keeps_first(rows, idx, n) ==
  IF n = 0
  THEN << >>
  ELSE LET t == dedupe_table_keeps_first(rows, idx, n - 1)
           row == rows[n]
           sku_norm == Lower(Strip(row[idx]))
       IN IF sku_norm = "" \/ sku_norm \in DOMAIN t
          THEN t
          ELSE [k \in (DOMAIN t) \cup {sku_norm} |->
                  IF k = sku_norm THEN row ELSE t[k]]

\* preprocesscsv.py:86-98: INSERT OR REPLACE keyed by the normalized SKU;
\* the table after rows[1..n], as a function from key to row.
RECURSIVE dedupe_table(_, _, _)
dedupe_table(rows, idx, n) ==
  IF n = 0
  THEN << >>
  ELSE LET t == dedupe_table(rows, idx, n - 1)
           row == rows[n]
           sku_norm == Lower(Strip(row[idx]))
       IN IF sku_norm = ""
          THEN t
          ELSE [k \in (DOMAIN t) \cup {sku_norm} |->
                  IF k = sku_norm THEN row ELSE t[k]]

\* A second pass that reads the table in descending key order.
RECURSIVE ordered_rows_descending(_)
ordered_rows_descending(t) ==
  IF DOMAIN t = {}
  THEN << >>
  ELSE LET k == CHOOSE x \in DOMAIN t : \A y \in DOMAIN t : KeyRank(x) >= KeyRank(y)
       IN <<t[k]>> \o ordered_rows_descending([y \in (DOMAIN t) \ {k} |-> t[y]])

\* preprocesscsv.py:109-120: SELECT ... ORDER BY sku_norm.
RECURSIVE ordered_rows(_)
ordered_rows(t) ==
  IF DOMAIN t = {}
  THEN << >>
  ELSE LET k == CHOOSE x \in DOMAIN t : \A y \in DOMAIN t : KeyRank(x) <= KeyRank(y)
       IN <<t[k]>> \o ordered_rows([y \in (DOMAIN t) \ {k} |-> t[y]])

\* preprocess_dedupe_csv: the data rows of the deduplicated file.
preprocess_dedupe_csv(file) ==
  ordered_rows(dedupe_table(file.rows, sku_idx(file.header), Len(file.rows)))

\* The uploads the model draws from.
StdHeader == <<"sku", "name", "description", "price", "is_active">>

File1 == [delimiter |-> ",", header |-> StdHeader,
          rows |-> << <<"X1", "New", "d", "9.99", "">> >>]

File2 == [delimiter |-> ",", header |-> StdHeader,
          rows |-> << <<"a1", "Widget", "", "", "yes">>,
                      <<"A1", "Gadget", "", "5 ", "no">>,
                      <<"b2", "", "", "", "">> >>]

File3 == [delimiter |-> ",", header |-> <<"SKU", "Name", "description", "price", "is_active">>,
          rows |-> << <<"c3", "C", "", "", "">>,
                      <<"b2 ", "B", "", "$1,000", "">>,
                      <<"X1", "New", "", "", "">> >>]

File4 == [delimiter |-> ",", header |-> <<"name", "price">>,
          rows |-> << <<"Widget", "9.99">> >>]

File5 == [delimiter |-> ",", header |-> StdHeader,
          rows |-> << <<"a1", "", "", "", "">>,
                      <<"", "Nameless", "", "", "">>,
                      <<"b2", " ", "", "", "">>,
                      <<"c3", "C", "", "-5", "">> >>]

File6 == [delimiter |-> ",", header |-> <<"sku", "price">>,
          rows |-> << <<"c3", "9.99">> >>]

File7 == [delimiter |-> ",", header |-> StdHeader,
          rows |-> << <<"c3", "C", "", "abc", "maybe">> >>]

File8 == [delimiter |-> ",", header |-> StdHeader,
          rows |-> << <<"a1", "A", "", "", "">>,
                      <<"b2", "B", "", "", "">>,
                      <<"c3", "", "", "", "">> >>]

\* A file that starts with the UTF-8 signature, and a Latin-1 file.
File9 == [delimiter |-> ",", header |-> <<"<EF BB BF>sku", "name", "description", "price", "is_active">>,
          rows |-> << <<"c3", "C", "", "", "">> >>]

File10 == [delimiter |-> ",", header |-> StdHeader,
           rows |-> << <<"c3", "caf<E9>", "", "", "">> >>]

\* A header with two names of the priority list, the later one first, and a
\* file that holds a blank line only (csv.reader yields an empty header).
File11 == [delimiter |-> ",", header |-> <<"code", "id">>,
           rows |-> << <<"c3", "a1">>, <<"c3", "b2">> >>]

File12 == [delimiter |-> "", header |-> << >>, rows |-> << >>]

Files == {File1, File2, File3, File4, File5, File6, File7, File8, File9, File10,
          File11, File12}

\* ---------------------------------------------------------------- state
VARIABLES
  jobs,      \* import_jobs table: job id -> committed row
  products,  \* products table: set of rows
  staging,   \* products_staging table: rows in heap order (one shared table)
  next_id,   \* source of system-assigned product ids
  fs,        \* temporary files: path -> content
  request,   \* upload_csv: position of the request handler per job
  queue,     \* Celery broker: dispatched process_csv_import messages
  task,      \* process_csv_import: position and locals per execution
  txn,       \* merge_staging_to_main: the open transaction per execution
  emitted,   \* trigger_webhook calls per job and event type
  deliveries, \* send_webhook: the delivery per job, event type and webhook
  hist       \* history of each execution, read by the properties only

vars == <<jobs, products, staging, next_id, fs, request, queue, task, txn,
          emitted, deliveries, hist>>

\* models.py ImportJob: column defaults; eta_seconds -1 stands for NULL,
\* the "None" text for a NULL error_message, FALSE for a NULL timestamp.
NoJob ==
  [status |-> "absent", total_records |-> 0, processed_records |-> 0,
   error_message |-> "None", eta_seconds |-> -1,
   started_at |-> FALSE, completed_at |-> FALSE]

\* tasks.py:120-122 and 186-204: the locals of process_csv_import.
IdleTask ==
  [pc |-> "idle", deduped_file |-> FALSE, header |-> << >>, rows |-> << >>,
   total_records |-> 0, processed |-> 0, skipped |-> 0,
   batch_rows |-> << >>, pos |-> 1, err |-> "None"]

NoTxn == [active |-> FALSE, rows |-> << >>, pos |-> 1, writes |-> << >>]

NoHist ==
  [products_before |-> {}, staged |-> << >>, snapshot |-> << >>,
   merge_attempted |-> FALSE, merge_committed |-> FALSE,
   merge_overlapped |-> FALSE, merge_writes |-> 0, fail_stage |-> "none", error |-> "None",
   positive_eta |-> FALSE, stale_eta |-> FALSE,
   payload |-> [total_records |-> -1, processed_records |-> -1]]

\* Products present before any import: created through the CRUD API, which
\* refuses a SKU equal to an existing one up to letter case
\* (api/products.py:19-24).
PriorProducts ==
  {[id |-> 1, sku |-> "X1", name |-> "Old", description |-> "",
    price |-> 100, is_active |-> TRUE],
   [id |-> 2, sku |-> "a1", name |-> "Old", description |-> "",
    price |-> 0, is_active |-> TRUE]}

\* datetime.utcnow() - start_time at a progress checkpoint, in seconds.
Elapsed == {0, 3}

UploadPath(j) == <<"upload", j>>
DedupedPath(j) == <<"deduped", j>>
ScratchDbPath(j) == <<"dedupe_db", j>>
ChunkPath(j) == <<"chunk", j>>
Paths ==
  UNION {{UploadPath(j), DedupedPath(j), ScratchDbPath(j), ChunkPath(j)} : j \in Jobs}

\* A path at which no file exists.
NoFile == [exists |-> FALSE, delimiter |-> "", header |-> << >>, rows |-> << >>]

\* A file with no content, as tempfile.mkstemp leaves it.
EmptyFile == [delimiter |-> "", header |-> << >>, rows |-> << >>]

\* The delimiters csv.Sniffer is asked to choose from (preprocesscsv.py:52,
\* tasks.py:152).
Delimiters == {",", ";", "\t", "|"}

\* csv.Sniffer().sniff with the csv.excel fallback: the delimiter the file
\* was written with when it is one of the four, otherwise a comma.
sniff(file) == IF file.delimiter \in Delimiters THEN file.delimiter ELSE ","

\* ------------------------------------------------------ webhook_service
\* webhook_service.py:39-40.
max_retries == 3
base_delay == 1

EventTypes == {"ImportStarted", "ImportCompleted"}

\* The webhooks table (models.py:131-143): one webhook subscribed to every
\* event type (empty event_types), one to ImportStarted only, one disabled
\* and one subscribed to an event type the import never emits.
Webhooks ==
  [w1 |-> [is_enabled |-> TRUE, event_types |-> {}],
   w2 |-> [is_enabled |-> TRUE, event_types |-> {"ImportStarted"}],
   w3 |-> [is_enabled |-> FALSE, event_types |-> {}],
   w4 |-> [is_enabled |-> TRUE, event_types |-> {"ProductCreated"}]]

WebhookIds == DOMAIN Webhooks

\* webhook_service.py:18-25: the enabled webhooks whose event_types is empty
\* or holds the event type.
matching_webhooks(event_type) ==
  {w \in WebhookIds :
     /\ Webhooks[w].is_enabled
     /\ Webhooks[w].event_types = {} \/ event_type \in Webhooks[w].event_types}

\* A delivery that was never created, and send_webhook called with
\* retry_count = 0 (webhook_service.py:29 and 37).
NoDelivery ==
  [state |-> "none", retry_count |-> 0, attempts |-> 0, waits |-> << >>,
   response |-> "none"]
NewDelivery == [NoDelivery EXCEPT !.state = "ready"]

DeliveryKeys == Jobs \X EventTypes \X WebhookIds

\* webhook_service.py:28-29 awaited from upload_csv: one send_webhook task
\* per matching webhook is created on the server's event loop, which keeps
\* running.
CreateTasks(d, j, event_type) ==
  [k \in DeliveryKeys |->
     IF k[1] = j /\ k[2] = event_type /\ k[3] \in matching_webhooks(event_type)
     THEN NewDelivery
     ELSE d[k]]

\* tasks.py:361-376 around webhook_service.py:28-29: the tasks are created on
\* a loop that process_csv_import runs only until trigger_webhook returns
\* and then closes; each task has started its request at most, and is
\* destroyed pending, before any response or error.
CreateTasksOnClosedLoop(d, j, event_type) ==
  [k \in DeliveryKeys |->
     IF k[1] = j /\ k[2] = event_type /\ k[3] \in matching_webhooks(event_type)
     THEN [NoDelivery EXCEPT !.state = "abandoned"]
     ELSE d[k]]

\* What one HTTP attempt ends with: a 2xx response, another response, or an
\* exception (endpoint unreachable, timeout).
Outcomes == {"2xx", "non2xx", "error"}

\* A retry wait that grows by base_delay each time.
backoff_delay_linear(retry_count) == base_delay * (retry_count + 1)

\* webhook_service.py:63 and 75.
backoff_delay(retry_count) == base_delay * (2 ^ retry_count)

\* webhook_service.py:37-83: one call of send_webhook, from the POST to the
\* return, the sleep before the recursive call included; the recursive call
\* is the next step of the same delivery.
send_webhook(d, outcome) ==
  IF outcome = "2xx"
  THEN [d EXCEPT !.state = "delivered", !.attempts = @ + 1, !.response = outcome]
  ELSE IF d.retry_count < max_retries
       THEN [d EXCEPT !.attempts = @ + 1, !.response = outcome,
                      !.waits = Append(@, backoff_delay(d.retry_count)),
                      !.retry_count = @ + 1]
       ELSE [d EXCEPT !.state = "gave_up", !.attempts = @ + 1, !.response = outcome]

Init ==
  /\ deliveries = [k \in DeliveryKeys |-> NoDelivery]
  /\ jobs = [j \in Jobs |-> NoJob]
  /\ products = PriorProducts
  /\ staging = << >>
  /\ next_id = 3
  /\ fs = [p \in Paths |-> NoFile]
  /\ request = [j \in Jobs |-> "none"]
  /\ queue = {}
  /\ task = [j \in Jobs |-> IdleTask]
  /\ txn = [j \in Jobs |-> NoTxn]
  /\ emitted = [j \in Jobs |-> [ImportStarted |-> 0, ImportCompleted |-> 0]]
  /\ hist = [j \in Jobs |-> NoHist]

\* Write (create or overwrite) a file.
WriteFile(f, path, content) ==
  [f EXCEPT ![path] = [exists |-> TRUE, delimiter |-> content.delimiter,
                       header |-> content.header,
                       rows |-> content.rows]]

\* os.unlink of each of the paths.
Unlink(f, paths) == [p \in DOMAIN f |-> IF p \in paths THEN NoFile ELSE f[p]]

\* ------------------------------------------------------------ upload_csv
\* api/imports.py:38-56: the job row is committed as pending, the upload is
\* saved to a temporary file and ImportStarted is triggered. Job ids are
\* handed out in order, which only fixes the naming of the jobs.
UploadCreate(j, file) ==
  /\ request[j] = "none"
  /\ \A k \in Jobs : k < j => request[k] # "none"
  /\ jobs' = [jobs EXCEPT ![j] = [NoJob EXCEPT !.status = "pending"]]
  /\ fs' = WriteFile(fs, UploadPath(j), file)
  /\ emitted' = [emitted EXCEPT ![j].ImportStarted = @ + 1]
  /\ deliveries' = CreateTasks(deliveries, j, "ImportStarted")
  /\ request' = [request EXCEPT ![j] = "created"]
  /\ UNCHANGED <<products, staging, next_id, queue, task, txn, hist>>

\* api/imports.py:59-61 and 70: process_csv_import.delay succeeds.
DispatchOk(j) ==
  /\ request[j] = "created"
  /\ queue' = queue \cup {j}
  /\ request' = [request EXCEPT ![j] = "returned_201"]
  /\ UNCHANGED <<jobs, products, staging, next_id, fs, task, txn, emitted, deliveries, hist>>

\* A dispatch-failure handler that answers with the error and leaves the
\* job row as it was created.
DispatchFailLeavesPending(j) ==
  /\ request[j] = "created"
  /\ request' = [request EXCEPT ![j] = "raised_500"]
  /\ UNCHANGED <<jobs, products, staging, next_id, fs, queue, task, txn, emitted, deliveries, hist>>

\* A dispatch-failure handler that also removes the temporary upload.
DispatchFailUnlinks(j) ==
  /\ request[j] = "created"
  /\ jobs' = [jobs EXCEPT ![j].status = "failed",
                          ![j].error_message = "Failed to start import task"]
  /\ request' = [request EXCEPT ![j] = "raised_500"]
  /\ fs' = Unlink(fs, {UploadPath(j)})
  /\ UNCHANGED <<products, staging, next_id, queue, task, txn, emitted, deliveries, hist>>

\* api/imports.py:62-68: process_csv_import.delay raises.
DispatchFail(j) ==
  /\ request[j] = "created"
  /\ jobs' = [jobs EXCEPT ![j].status = "failed",
                          ![j].error_message = "Failed to start import task"]
  /\ request' = [request EXCEPT ![j] = "raised_500"]
  /\ UNCHANGED <<products, staging, next_id, fs, queue, task, txn, emitted, deliveries, hist>>

\* ---------------------------------------------------- process_csv_import
\* An exception raised inside the try block: control moves to the handler.
Raise(t, e) == [t EXCEPT !.pc = "except", !.err = e]

Failed(h, stage, e) == [h EXCEPT !.fail_stage = stage, !.error = e]

\* tasks.py:120-136: the job is looked up and committed as parsing.
TaskStart(j) ==
  /\ j \in queue
  /\ task[j].pc = "idle"
  /\ jobs[j].status # "absent"
  /\ queue' = queue \ {j}
  /\ jobs' = [jobs EXCEPT ![j].status = "parsing", ![j].started_at = TRUE]
  /\ task' = [task EXCEPT ![j].pc = "dedupe"]
  /\ hist' = [hist EXCEPT ![j].products_before = products]
  /\ UNCHANGED <<products, staging, next_id, fs, request, txn, emitted, deliveries>>

\* preprocesscsv.py:20-27 and 122-127: the output file and the sqlite
\* scratch database are created; the finally block unlinks the database
\* only.
DedupeFiles(f, j, out) ==
  Unlink(WriteFile(WriteFile(f, DedupedPath(j), out),
                   ScratchDbPath(j), EmptyFile),
         {ScratchDbPath(j)})

\* The cells of a file, header and data rows.
Cells(file) ==
  {file.header[i] : i \in 1..Len(file.header)} \cup
  UNION {{file.rows[r][i] : i \in 1..Len(file.rows[r])} : r \in 1..Len(file.rows)}

\* preprocesscsv.py:47: the file is opened with encoding='utf-8' and no
\* other encoding is tried; Decodes is FALSE when reading it raises
\* UnicodeDecodeError, Decoded is the text that is read otherwise.
Decodes(file) == \A c \in Cells(file) : decode(c).ok

Decoded(file) ==
  [delimiter |-> file.delimiter,
   header |-> [i \in 1..Len(file.header) |-> decode(file.header[i]).text],
   rows |-> [r \in 1..Len(file.rows) |->
               [i \in 1..Len(file.rows[r]) |-> decode(file.rows[r][i]).text]]]

\* tasks.py:138-141 with preprocesscsv.py:20-23, 47-50 and 62-74: the output
\* file is created first; a file that is not valid UTF-8 raises
\* UnicodeDecodeError, a header without an SKU column ValueError, and
\* deduped_file stays None in the caller.
Dedupe(j) ==
  /\ task[j].pc = "dedupe"
  /\ LET file == Decoded(fs[UploadPath(j)])
     IN IF ~Decodes(fs[UploadPath(j)])
        THEN /\ fs' = DedupeFiles(fs, j, EmptyFile)
             /\ task' = [task EXCEPT ![j] = Raise(@, "'utf-8' codec can't decode byte")]
             /\ hist' = [hist EXCEPT ![j] = Failed(@, "dedupe", "'utf-8' codec can't decode byte")]
        ELSE IF sku_idx(file.header) = 0
        THEN /\ fs' = DedupeFiles(fs, j, EmptyFile)
             /\ task' = [task EXCEPT ![j] = Raise(@, "Could not find SKU column in CSV header")]
             /\ hist' = [hist EXCEPT ![j] = Failed(@, "dedupe", "Could not find SKU column in CSV header")]
        ELSE /\ fs' = DedupeFiles(fs, j, [delimiter |-> sniff(file),
                                          header |-> file.header,
                                          rows |-> preprocess_dedupe_csv(file)])
             /\ task' = [task EXCEPT ![j].pc = "ensure", ![j].deduped_file = TRUE]
             /\ hist' = hist
  /\ UNCHANGED <<jobs, products, staging, next_id, request, queue, txn, emitted, deliveries>>

\* DROP TABLE and TRUNCATE take an ACCESS EXCLUSIVE lock on the staging
\* table and wait for every merge transaction reading it.
StagingLocked == \E k \in Jobs : txn[k].active

\* tasks.py:44-61 called at 144: DROP TABLE IF EXISTS; CREATE UNLOGGED TABLE.
EnsureStaging(j) ==
  /\ task[j].pc = "ensure"
  /\ ~StagingLocked
  /\ staging' = << >>
  /\ task' = [task EXCEPT ![j].pc = "truncate"]
  /\ UNCHANGED <<jobs, products, next_id, fs, request, queue, txn, emitted, deliveries, hist>>

\* tasks.py:64-67 called at 145.
TruncateStaging(j) ==
  /\ task[j].pc = "truncate"
  /\ ~StagingLocked
  /\ staging' = << >>
  /\ task' = [task EXCEPT ![j].pc = "count"]
  /\ UNCHANGED <<jobs, products, next_id, fs, request, queue, txn, emitted, deliveries, hist>>

\* tasks.py:59-60 and 65-66: the statement fails (StorageError: the
\* database is unreachable or refuses the statement).
StagingSetupFail(j) ==
  /\ task[j].pc \in {"ensure", "truncate"}
  /\ task' = [task EXCEPT ![j] = Raise(@, "staging setup failed")]
  /\ hist' = [hist EXCEPT ![j] = Failed(@, "staging", "staging setup failed")]
  /\ UNCHANGED <<jobs, products, staging, next_id, fs, request, queue, txn, emitted, deliveries>>

\* Mutant of CountRecords: the first data row is consumed as if it were a
\* second header line.
CountRecordsSkipsOne(rows) == IF Len(rows) > 0 THEN Len(rows) - 1 ELSE 0

\* tasks.py:157-173: the data rows of the deduplicated file.
CountRecords(rows) == Len(rows)

\* tasks.py:147-179: total_records is counted and committed with validating.
Validate(j) ==
  /\ task[j].pc = "count"
  /\ LET file == fs[DedupedPath(j)]
     IN /\ task' = [task EXCEPT ![j].pc = "importing",
                                ![j].header = file.header,
                                ![j].rows = file.rows,
                                ![j].total_records = CountRecords(file.rows)]
        /\ jobs' = [jobs EXCEPT ![j].total_records = CountRecords(file.rows),
                                ![j].status = "validating"]
  /\ UNCHANGED <<products, staging, next_id, fs, request, queue, txn, emitted, deliveries, hist>>

\* tasks.py:181-183.
StartImporting(j) ==
  /\ task[j].pc = "importing"
  /\ jobs' = [jobs EXCEPT ![j].status = "importing"]
  /\ task' = [task EXCEPT ![j].pc = "load"]
  /\ UNCHANGED <<products, staging, next_id, fs, request, queue, txn, emitted, deliveries, hist>>

\* x or "" on a dict.get result.
OrEmpty(v) == IF v = "None" THEN "" ELSE v

\* tasks.py:246-267: one parsed row with cleaned keys and mapped values.
Mapped(header, row) ==
  [sku |-> Strip(OrEmpty(Get(header, row, "sku"))),
   name |-> Strip(OrEmpty(Get(header, row, "name"))),
   description |->
     Strip(IF OrEmpty(Get(header, row, "description")) # ""
           THEN Get(header, row, "description")
           ELSE OrEmpty(Get(header, row, "desc"))),
   price |-> price_of(Get(header, row, "price")),
   is_active |-> Get(header, row, "is_active")]

\* A loader that skips a row only for a missing sku.
SkipsOnlySku(m) == m.sku = ""

\* tasks.py:269: the row is skipped.
Skips(m) == m.sku = "" \/ m.name = ""

\* Texts PostgreSQL's boolean input reads from the chunk file as true and
\* as false; any other text makes COPY fail.
PgTrue == {"true", "t", "yes", "y", "on", "1"}
PgFalse == {"false", "f", "no", "n", "off", "0"}
PgBoolean(v) == Lower(Strip(v)) \in PgTrue \cup PgFalse

\* tasks.py:70-86: COPY of one chunk is all or nothing; it refuses a chunk
\* holding a value its column type cannot read.
CopyAccepts(rows) ==
  \A i \in 1..Len(rows) : PgBoolean(is_active_of(rows[i].is_active))

\* tasks.py:206-238: the rows one chunk appends to the staging table; by
\* records the execution that copied the row and is read by the properties
\* only.
StagedRows(j, rows) ==
  [i \in 1..Len(rows) |->
     [sku |-> rows[i].sku, name |-> rows[i].name,
      description |-> rows[i].description, price |-> rows[i].price,
      is_active |-> (Lower(Strip(is_active_of(rows[i].is_active))) \in PgTrue),
      by |-> j]]

\* tasks.py:289-292 and 314-317.
eta_seconds(elapsed, processed, total_records) ==
  LET remaining == IF total_records - processed > 0
                   THEN total_records - processed ELSE 0
  IN IF processed > 0 /\ elapsed # 0
     THEN (elapsed * remaining) \div processed
     ELSE -1

\* tasks.py:209-243: the chunk's scratch file is written and, in the
\* finally block, unlinked.
ChunkFiles(f, j, rows) ==
  Unlink(WriteFile(f, ChunkPath(j),
                   [delimiter |-> ",", header |-> COLUMNS, rows |-> rows]),
         {ChunkPath(j)})

\* tasks.py:285-300 and 311-325: a chunk is copied and progress committed;
\* nextpc is where the loop continues.
FlushOk(j, t, nextpc) ==
  /\ CopyAccepts(t.batch_rows)
  /\ fs' = ChunkFiles(fs, j, t.batch_rows)
  /\ \E elapsed \in Elapsed :
       LET processed == t.processed + Len(t.batch_rows)
       IN /\ staging' = staging \o StagedRows(j, t.batch_rows)
          /\ task' = [task EXCEPT ![j] =
                        [t EXCEPT !.processed = processed,
                                  !.batch_rows = << >>, !.pc = nextpc]]
          /\ jobs' = [jobs EXCEPT
                        ![j].processed_records = processed,
                        ![j].eta_seconds =
                          eta_seconds(elapsed, processed, t.total_records)]
          /\ hist' = [hist EXCEPT
                        ![j].staged = @ \o StagedRows(j, t.batch_rows),
                        ![j].positive_eta =
                          @ \/ eta_seconds(elapsed, processed, t.total_records) > 0]

\* Mutant of FlushFail: the COPY error is swallowed and the loop goes on.
FlushFailSwallowed(j, t) ==
  /\ task' = [task EXCEPT ![j] =
                [t EXCEPT !.batch_rows = << >>,
                          !.pc = IF t.pos > Len(t.rows) THEN "merge" ELSE "load"]]
  /\ hist' = [hist EXCEPT ![j] = Failed(@, "copy", "COPY to staging failed")]
  /\ fs' = ChunkFiles(fs, j, t.batch_rows)
  /\ UNCHANGED <<jobs, staging>>

\* The text of the error COPY raises for a chunk: the column type's input
\* error when the chunk holds a value it cannot read, otherwise a
\* StorageError.
CopyError(rows) ==
  IF CopyAccepts(rows)
  THEN "COPY to staging failed"
  ELSE "invalid input syntax for type boolean"

\* tasks.py:237 raising: nothing of the chunk reaches staging.
FlushFail(j, t) ==
  /\ task' = [task EXCEPT ![j] = Raise(t, CopyError(t.batch_rows))]
  /\ hist' = [hist EXCEPT ![j] = Failed(@, "copy", CopyError(t.batch_rows))]
  /\ fs' = ChunkFiles(fs, j, t.batch_rows)
  /\ UNCHANGED <<jobs, staging>>

\* tasks.py:245-303: one iteration of the row loop.
LoadRow(j) ==
  /\ task[j].pc = "load"
  /\ task[j].pos <= Len(task[j].rows)
  /\ LET t == task[j]
         m == Mapped(t.header, t.rows[t.pos])
     IN IF Skips(m)
        THEN /\ task' = [task EXCEPT ![j].skipped = @ + 1,
                                     ![j].processed = @ + 1,
                                     ![j].pos = @ + 1]
             /\ jobs' = IF (t.processed + 1) % skip_checkpoint = 0
                        THEN [jobs EXCEPT ![j].processed_records = t.processed + 1]
                        ELSE jobs
             /\ UNCHANGED <<staging, hist, fs>>
        ELSE LET b == [t EXCEPT !.batch_rows = Append(@, m), !.pos = @ + 1]
             IN IF Len(b.batch_rows) >= batch_size
                THEN FlushOk(j, b, "load") \/ FlushFail(j, b)
                ELSE /\ task' = [task EXCEPT ![j] = b]
                     /\ UNCHANGED <<jobs, staging, hist, fs>>
  /\ UNCHANGED <<products, next_id, request, queue, txn, emitted, deliveries>>

\* A loop exit that goes on to the merge without copying the final partial
\* chunk.
FlushRemainderSkipped(j) ==
  /\ task[j].pc = "load"
  /\ task[j].pos > Len(task[j].rows)
  /\ task' = [task EXCEPT ![j].pc = "merge"]
  /\ UNCHANGED <<jobs, staging, hist, fs>>
  /\ UNCHANGED <<products, next_id, request, queue, txn, emitted, deliveries>>

\* tasks.py:305-328: the final partial chunk, then on to the merge.
FlushRemainder(j) ==
  /\ task[j].pc = "load"
  /\ task[j].pos > Len(task[j].rows)
  /\ IF task[j].batch_rows # << >>
     THEN FlushOk(j, task[j], "merge") \/ FlushFail(j, task[j])
     ELSE /\ task' = [task EXCEPT ![j].pc = "merge"]
          /\ UNCHANGED <<jobs, staging, hist, fs>>
  /\ UNCHANGED <<products, next_id, request, queue, txn, emitted, deliveries>>

\* ------------------------------------------------- merge_staging_to_main
\* SKUs the transaction has written and holds locked until it ends.
Written(x) == {x.writes[i].row.sku : i \in 1..Len(x.writes)}

\* Mutant of MustWait: no unique index on products.sku, so nothing waits.
MustWaitNever(j, sku) == FALSE

\* models.py:82 unique=True: the unique index makes a writer of a key wait
\* for any open transaction that has written the same key.
MustWait(j, sku) ==
  \E k \in Jobs \ {j} : txn[k].active /\ sku \in Written(txn[k])

\* tasks.py:97-101 ON CONFLICT (sku) DO UPDATE: the arbiter is the exact
\* stored sku.
UpsertOp(P, sku) == IF \E p \in P : p.sku = sku THEN "upd" ELSE "ins"

\* Mutant of ApplyWrites: DO UPDATE SET leaves out name and description.
RECURSIVE ApplyWritesPartialUpdate(_, _, _)
ApplyWritesPartialUpdate(P, writes, id) ==
  IF writes = << >>
  THEN P
  ELSE LET w == Head(writes)
           r == w.row
       IN IF w.op = "upd"
          THEN ApplyWritesPartialUpdate(
                 {IF p.sku = r.sku
                  THEN [p EXCEPT !.price = r.price, !.is_active = r.is_active]
                  ELSE p : p \in P},
                 Tail(writes), id)
          ELSE ApplyWritesPartialUpdate(
                 P \cup {[id |-> id, sku |-> r.sku, name |-> r.name,
                          description |-> r.description, price |-> r.price,
                          is_active |-> r.is_active]},
                 Tail(writes), id + 1)

\* The products table after the transaction's writes are committed.
RECURSIVE ApplyWrites(_, _, _)
ApplyWrites(P, writes, id) ==
  IF writes = << >>
  THEN P
  ELSE LET w == Head(writes)
           r == w.row
       IN IF w.op = "upd"
          THEN ApplyWrites(
                 {IF p.sku = r.sku
                  THEN [p EXCEPT !.name = r.name, !.description = r.description,
                                 !.price = r.price, !.is_active = r.is_active]
                  ELSE p : p \in P},
                 Tail(writes), id)
          ELSE ApplyWrites(
                 P \cup {[id |-> id, sku |-> r.sku, name |-> r.name,
                          description |-> r.description, price |-> r.price,
                          is_active |-> r.is_active]},
                 Tail(writes), id + 1)

Inserts(writes) == Cardinality({i \in 1..Len(writes) : writes[i].op = "ins"})

\* tasks.py:103-104: the statement starts and reads the staging table.
MergeBegin(j) ==
  /\ task[j].pc = "merge"
  /\ txn' = [txn EXCEPT ![j] = [active |-> TRUE, rows |-> staging,
                                pos |-> 1, writes |-> << >>]]
  /\ task' = [task EXCEPT ![j].pc = "merging"]
  /\ hist' = [hist EXCEPT
                ![j].merge_attempted = TRUE,
                ![j].snapshot = staging,
                ![j].merge_overlapped = \E k \in Jobs \ {j} : txn[k].active]
  /\ UNCHANGED <<jobs, products, staging, next_id, fs, request, queue, emitted, deliveries>>

\* tasks.py:97-101: the statement inserts or updates for one staging row. A
\* second row for a key the statement already wrote is refused by
\* PostgreSQL and the transaction rolls back.
MergeRow(j) ==
  /\ task[j].pc = "merging"
  /\ txn[j].pos <= Len(txn[j].rows)
  /\ LET r == txn[j].rows[txn[j].pos]
     IN IF r.sku \in Written(txn[j])
        THEN /\ txn' = [txn EXCEPT ![j] = NoTxn]
             /\ task' = [task EXCEPT ![j] =
                  Raise(@, "ON CONFLICT DO UPDATE command cannot affect row a second time")]
             /\ hist' = [hist EXCEPT ![j] =
                  [Failed(@, "merge", "ON CONFLICT DO UPDATE command cannot affect row a second time")
                     EXCEPT !.merge_writes = Len(txn[j].writes)]]
        ELSE /\ ~MustWait(j, r.sku)
             /\ txn' = [txn EXCEPT
                  ![j].writes = Append(@, [op |-> UpsertOp(products, r.sku), row |-> r]),
                  ![j].pos = @ + 1]
             /\ UNCHANGED <<task, hist>>
  /\ UNCHANGED <<jobs, products, staging, next_id, fs, request, queue, emitted, deliveries>>

\* tasks.py:103-105: the transaction commits.
MergeCommit(j) ==
  /\ task[j].pc = "merging"
  /\ txn[j].pos > Len(txn[j].rows)
  /\ products' = ApplyWrites(products, txn[j].writes, next_id)
  /\ next_id' = next_id + Inserts(txn[j].writes)
  /\ txn' = [txn EXCEPT ![j] = NoTxn]
  /\ task' = [task EXCEPT ![j].pc = "finalize"]
  /\ hist' = [hist EXCEPT ![j].merge_committed = TRUE]
  /\ UNCHANGED <<jobs, staging, fs, request, queue, emitted, deliveries>>

\* Mutant of MergeFail: the rows written so far were committed one by one.
MergeFailKeepsWrites(j) ==
  /\ task[j].pc = "merging"
  /\ products' = ApplyWrites(products, txn[j].writes, next_id)
  /\ next_id' = next_id + Inserts(txn[j].writes)
  /\ txn' = [txn EXCEPT ![j] = NoTxn]
  /\ task' = [task EXCEPT ![j] = Raise(@, "merge failed")]
  /\ hist' = [hist EXCEPT ![j] = Failed(@, "merge", "merge failed")]
  /\ UNCHANGED <<jobs, staging, fs, request, queue, emitted, deliveries>>

\* tasks.py:103-104 raising (StorageError): the transaction rolls back.
MergeFail(j) ==
  /\ task[j].pc = "merging"
  /\ txn' = [txn EXCEPT ![j] = NoTxn]
  /\ task' = [task EXCEPT ![j] = Raise(@, "merge failed")]
  /\ hist' = [hist EXCEPT ![j] = [Failed(@, "merge", "merge failed")
                                    EXCEPT !.merge_writes = Len(txn[j].writes)]]
  /\ UNCHANGED <<jobs, products, staging, next_id, fs, request, queue, emitted, deliveries>>

\* ------------------------------------------------- completion and exits
\* A completion that writes the number of staged rows as total_records.
FinalizeCountsStaged(j) ==
  /\ task[j].pc = "finalize"
  /\ jobs' = [jobs EXCEPT ![j].processed_records = task[j].processed,
                          ![j].total_records = task[j].processed - task[j].skipped,
                          ![j].status = "completed",
                          ![j].completed_at = TRUE,
                          ![j].eta_seconds = 0]
  /\ task' = [task EXCEPT ![j].pc = "truncate_after"]
  /\ hist' = [hist EXCEPT ![j].stale_eta = jobs[j].eta_seconds > 0]
  /\ UNCHANGED <<products, staging, next_id, fs, request, queue, txn, emitted, deliveries>>

\* A completion that leaves eta_seconds as the last checkpoint wrote it.
FinalizeKeepsEta(j) ==
  /\ task[j].pc = "finalize"
  /\ jobs' = [jobs EXCEPT ![j].processed_records = task[j].processed,
                          ![j].total_records = task[j].total_records,
                          ![j].status = "completed",
                          ![j].completed_at = TRUE]
  /\ task' = [task EXCEPT ![j].pc = "truncate_after"]
  /\ hist' = [hist EXCEPT ![j].stale_eta = jobs[j].eta_seconds > 0]
  /\ UNCHANGED <<products, staging, next_id, fs, request, queue, txn, emitted, deliveries>>

\* A completion that leaves processed_records at the last checkpoint.
FinalizeKeepsProgress(j) ==
  /\ task[j].pc = "finalize"
  /\ jobs' = [jobs EXCEPT ![j].total_records = task[j].total_records,
                          ![j].status = "completed",
                          ![j].completed_at = TRUE,
                          ![j].eta_seconds = 0]
  /\ task' = [task EXCEPT ![j].pc = "truncate_after"]
  /\ hist' = [hist EXCEPT ![j].stale_eta = jobs[j].eta_seconds > 0]
  /\ UNCHANGED <<products, staging, next_id, fs, request, queue, txn, emitted, deliveries>>

\* tasks.py:337-348.
Finalize(j) ==
  /\ task[j].pc = "finalize"
  /\ jobs' = [jobs EXCEPT ![j].processed_records = task[j].processed,
                          ![j].total_records = task[j].total_records,
                          ![j].status = "completed",
                          ![j].completed_at = TRUE,
                          ![j].eta_seconds = 0]
  /\ task' = [task EXCEPT ![j].pc = "truncate_after"]
  /\ hist' = [hist EXCEPT ![j].stale_eta = jobs[j].eta_seconds > 0]
  /\ UNCHANGED <<products, staging, next_id, fs, request, queue, txn, emitted, deliveries>>

\* tasks.py:357-358.
TruncateAfter(j) ==
  /\ task[j].pc = "truncate_after"
  /\ ~StagingLocked
  /\ staging' = << >>
  /\ task' = [task EXCEPT ![j].pc = "webhook"]
  /\ UNCHANGED <<jobs, products, next_id, fs, request, queue, txn, emitted, deliveries, hist>>

\* tasks.py:358 raising (StorageError), inside the same try block.
TruncateAfterFail(j) ==
  /\ task[j].pc = "truncate_after"
  /\ task' = [task EXCEPT ![j] = Raise(@, "truncate failed")]
  /\ hist' = [hist EXCEPT ![j] = Failed(@, "cleanup", "truncate failed")]
  /\ UNCHANGED <<jobs, products, staging, next_id, fs, request, queue, txn, emitted, deliveries>>

\* tasks.py:360-376.
TriggerCompleted(j) ==
  /\ task[j].pc = "webhook"
  /\ emitted' = [emitted EXCEPT ![j].ImportCompleted = @ + 1]
  /\ deliveries' = CreateTasksOnClosedLoop(deliveries, j, "ImportCompleted")
  /\ hist' = [hist EXCEPT ![j].payload =
                 [total_records |-> task[j].total_records,
                  processed_records |-> task[j].processed]]
  /\ task' = [task EXCEPT ![j].pc = "finally"]
  /\ UNCHANGED <<jobs, products, staging, next_id, fs, request, queue, txn>>

\* A failure handler that also triggers ImportCompleted.
HandleExceptionNotifies(j) ==
  /\ task[j].pc = "except"
  /\ jobs' = [jobs EXCEPT ![j].status = "failed",
                          ![j].error_message = task[j].err,
                          ![j].completed_at = TRUE]
  /\ emitted' = [emitted EXCEPT ![j].ImportCompleted = @ + 1]
  /\ task' = [task EXCEPT ![j].pc = "finally"]
  /\ UNCHANGED <<products, staging, next_id, fs, request, queue, txn, deliveries, hist>>

\* A failure handler that records the message and leaves the status as it
\* was.
HandleExceptionKeepsStatus(j) ==
  /\ task[j].pc = "except"
  /\ jobs' = [jobs EXCEPT ![j].error_message = task[j].err,
                          ![j].completed_at = TRUE]
  /\ task' = [task EXCEPT ![j].pc = "finally"]
  /\ UNCHANGED <<products, staging, next_id, fs, request, queue, txn, emitted, deliveries, hist>>

\* tasks.py:378-389: the failure handler.
HandleException(j) ==
  /\ task[j].pc = "except"
  /\ jobs' = [jobs EXCEPT ![j].status = "failed",
                          ![j].error_message = task[j].err,
                          ![j].completed_at = TRUE]
  /\ task' = [task EXCEPT ![j].pc = "finally"]
  /\ UNCHANGED <<products, staging, next_id, fs, request, queue, txn, emitted, deliveries, hist>>

\* tasks.py:390-404: the finally block; the locals end with the call.
Cleanup(j) ==
  /\ task[j].pc = "finally"
  /\ fs' = Unlink(fs, (IF task[j].deduped_file THEN {DedupedPath(j)} ELSE {})
                      \cup {UploadPath(j)})
  /\ task' = [task EXCEPT ![j] = [IdleTask EXCEPT !.pc = "done"]]
  /\ UNCHANGED <<jobs, products, staging, next_id, request, queue, txn, emitted, deliveries, hist>>

\* -------------------------------------------------------- specification
Next ==
  \/ \E j \in Jobs, file \in Files : UploadCreate(j, file)
  \/ \E j \in Jobs : DispatchOk(j)
  \/ \E j \in Jobs : DispatchFail(j)
  \/ \E j \in Jobs : TaskStart(j)
  \/ \E j \in Jobs : Dedupe(j)
  \/ \E j \in Jobs : EnsureStaging(j)
  \/ \E j \in Jobs : TruncateStaging(j)
  \/ \E j \in Jobs : StagingSetupFail(j)
  \/ \E j \in Jobs : Validate(j)
  \/ \E j \in Jobs : StartImporting(j)
  \/ \E j \in Jobs : LoadRow(j)
  \/ \E j \in Jobs : FlushRemainder(j)
  \/ \E j \in Jobs : MergeBegin(j)
  \/ \E j \in Jobs : MergeRow(j)
  \/ \E j \in Jobs : MergeCommit(j)
  \/ \E j \in Jobs : MergeFail(j)
  \/ \E j \in Jobs : Finalize(j)
  \/ \E j \in Jobs : TruncateAfter(j)
  \/ \E j \in Jobs : TruncateAfterFail(j)
  \/ \E j \in Jobs : TriggerCompleted(j)
  \/ \E j \in Jobs : HandleException(j)
  \/ \E j \in Jobs : Cleanup(j)

Spec == Init /\ [][Next]_vars

\* ------------------------------------------------------------ properties
Terminal == {"completed", "failed"}

\* No other job's import task has run.
Alone(j) == \A k \in Jobs \ {j} : task[k].pc = "idle"

\* The step in which job j's merge transaction commits.
MergeCommits(j) == ~hist[j].merge_committed /\ hist'[j].merge_committed

Skus(rows) == {rows[i].sku : i \in 1..Len(rows)}

\* C1: once a job's status is completed or failed, no step of
\* process_csv_import or upload_csv changes it again.
C1_TerminalStatusIsFinal ==
  [][\A j \in Jobs :
       jobs[j].status \in Terminal => jobs'[j].status = jobs[j].status]_vars

StatusEdges ==
  {<<"pending", "parsing">>, <<"parsing", "validating">>,
   <<"validating", "importing">>, <<"importing", "completed">>,
   <<"parsing", "failed">>, <<"validating", "failed">>,
   <<"importing", "failed">>}

\* C2: every change of an existing job's status follows an edge of the
\* state machine: forward one stage, or from parsing, validating or
\* importing to failed.
C2_StatusFollowsEdges ==
  [][\A j \in Jobs :
       (jobs[j].status # "absent" /\ jobs'[j].status # jobs[j].status)
         => <<jobs[j].status, jobs'[j].status>> \in StatusEdges]_vars

\* total_records has been committed for job j.
TotalSet(j) ==
  \/ jobs[j].status \in {"validating", "importing", "completed"}
  \/ jobs[j].status = "failed" /\ hist[j].fail_stage \in {"copy", "merge", "cleanup"}

\* C3: the committed processed_records of a job never decreases, and once
\* total_records is set processed_records never exceeds it (skipped rows
\* count as processed).
C3_ProcessedMonotoneAndBounded ==
  /\ [][\A j \in Jobs :
          jobs'[j].processed_records >= jobs[j].processed_records]_vars
  /\ [](\A j \in Jobs :
          TotalSet(j) => jobs[j].processed_records <= jobs[j].total_records)

\* C3 witness: a progress checkpoint committed mid-import, after a skipped
\* row, with rows still to come.
C3_Witness ==
  \E j \in Jobs :
    /\ jobs[j].status = "importing"
    /\ task[j].skipped > 0
    /\ jobs[j].processed_records > 0
    /\ jobs[j].processed_records < jobs[j].total_records

\* C4: the products table never holds two rows whose SKUs are equal up to
\* letter case.
C4_OneRowPerCaseFoldedSku ==
  \A p, q \in products : Lower(p.sku) = Lower(q.sku) => p = q

\* C5: a committing merge is an upsert keyed by the exact sku: each row it
\* read from staging ends as exactly one product row carrying the staged
\* name, description, price and is_active (the existing row, keeping its
\* id, when one had that sku, otherwise a new row), and products with other
\* SKUs are neither changed, added nor removed.
C5_MergeIsUpsertBySku ==
  [][\A j \in Jobs :
       MergeCommits(j) =>
         LET S == hist[j].snapshot
         IN /\ \A i \in 1..Len(S) :
                 LET new == {p \in products' : p.sku = S[i].sku}
                     old == {p \in products : p.sku = S[i].sku}
                 IN /\ Cardinality(new) = 1
                    /\ \A p \in new :
                         /\ p.name = S[i].name
                         /\ p.description = S[i].description
                         /\ p.price = S[i].price
                         /\ p.is_active = S[i].is_active
                         /\ IF old = {}
                            THEN p.id \notin {q.id : q \in products}
                            ELSE p.id \in {q.id : q \in old}
            /\ \A p \in products : p.sku \notin Skus(S) => p \in products'
            /\ \A p \in products' : p.sku \notin Skus(S) => p \in products]_vars

\* C5 witness: a merge has committed staged X1/"New" over the existing
\* X1/"Old" row, together with a row for a SKU that did not exist.
C5_Witness ==
  \E j \in Jobs :
    /\ hist[j].merge_committed
    /\ \E i \in 1..Len(hist[j].snapshot) :
         hist[j].snapshot[i].sku = "X1" /\ hist[j].snapshot[i].name = "New"
    /\ "c3" \in Skus(hist[j].snapshot)
    /\ \E p \in products : p.sku = "X1" /\ p.name = "New" /\ p.id = 1
    /\ \E p \in products : p.sku = "c3" /\ p.id >= 3

C8_StagingEmptyAfterMerge ==
  \A j \in Jobs :
    (task[j].pc = "done" /\ hist[j].merge_attempted) => staging = << >>

\* C9: the rows a job's merge reads from staging are exactly the rows that
\* job's bulk loader staged, in any interleaving with another job.
C9_MergeReadsOwnRows ==
  \A j \in Jobs :
    hist[j].merge_attempted => hist[j].snapshot = hist[j].staged

TempArtifacts(j) == {UploadPath(j), DedupedPath(j), ScratchDbPath(j), ChunkPath(j)}

\* C11: when process_csv_import has returned, on success or after a failure
\* in any stage, none of the temporary artifacts of that execution exists.
C11_TempFilesReleased ==
  \A j \in Jobs :
    task[j].pc = "done" => \A p \in TempArtifacts(j) : ~fs[p].exists

\* ------------------------------------------- preprocess_dedupe_csv alone
\* Longest input file, in data rows, the deduplicator is run on.
MaxRows == 3

\* SKU texts and payloads of the input rows, and the headers: the SKU column
\* is found under different cases and positions, or not at all.
InputSkus == {"a1", "A1", "b2", "b2 ", "c3", ""}
InputNames == {"P", "Q"}
InputHeaders == {<<"sku", "name">>, <<"name", "SKU">>, <<"name", "price">>}

\* The rows a file under the header can hold.
InputRows(header) ==
  {[i \in 1..2 |-> IF i = sku_idx(header) THEN s ELSE n] :
     s \in InputSkus, n \in InputNames}

\* The input files under a header with the delimiter d and at most n data
\* rows.
InputFilesOf(d, n) ==
  UNION {{[delimiter |-> d, header |-> h, rows |-> r] :
            r \in UNION {[1..m -> InputRows(h)] : m \in 0..n}} :
         h \in InputHeaders}

\* The input files: comma-delimited ones of at most MaxRows data rows, and
\* files of at most one data row for each of the other delimiters.
InputFiles ==
  InputFilesOf(",", MaxRows) \cup UNION {InputFilesOf(d, 1) : d \in Delimiters \ {","}}

\* Job 1 was uploaded and dispatched, and process_csv_import is about to
\* call preprocess_dedupe_csv on the uploaded file (tasks.py:138-141).
InitDedupe ==
  /\ deliveries = CreateTasks([k \in DeliveryKeys |-> NoDelivery], 1, "ImportStarted")
  /\ \E file \in InputFiles :
       fs = WriteFile([p \in Paths |-> NoFile], UploadPath(1), file)
  /\ jobs = [j \in Jobs |->
               IF j = 1
               THEN [NoJob EXCEPT !.status = "parsing", !.started_at = TRUE]
               ELSE NoJob]
  /\ products = PriorProducts
  /\ staging = << >>
  /\ next_id = 3
  /\ request = [j \in Jobs |-> IF j = 1 THEN "returned_201" ELSE "none"]
  /\ queue = {}
  /\ task = [j \in Jobs |-> IF j = 1 THEN [IdleTask EXCEPT !.pc = "dedupe"] ELSE IdleTask]
  /\ txn = [j \in Jobs |-> NoTxn]
  /\ emitted = [j \in Jobs |->
                  [ImportStarted |-> IF j = 1 THEN 1 ELSE 0, ImportCompleted |-> 0]]
  /\ hist = [j \in Jobs |->
               IF j = 1 THEN [NoHist EXCEPT !.products_before = PriorProducts] ELSE NoHist]

NextDedupe == \E j \in Jobs : Dedupe(j)

SpecDedupe == InitDedupe /\ [][NextDedupe]_vars

\* The normalized SKU of a row of a file: trimmed and case-folded.
NormSku(file, row) == Lower(Strip(row[sku_idx(file.header)]))

\* preprocess_dedupe_csv has returned for job 1; In is its input, Out its
\* output.
Deduped == task[1].pc = "ensure"
In == fs[UploadPath(1)]
Out == fs[DedupedPath(1)]

\* C12: the output of preprocess_dedupe_csv holds exactly one data row for
\* each distinct non-empty normalized SKU of the input, that row is the last
\* input row with that normalized SKU, and rows whose SKU is empty after
\* trimming produce no output row.
C12_DedupeKeepsLastPerKey ==
  Deduped =>
    LET keys == {NormSku(In, In.rows[i]) : i \in 1..Len(In.rows)} \ {""}
    IN /\ \A k \in keys :
            LET last == CHOOSE i \in 1..Len(In.rows) :
                          /\ NormSku(In, In.rows[i]) = k
                          /\ \A m \in (i + 1)..Len(In.rows) : NormSku(In, In.rows[m]) # k
                at == {o \in 1..Len(Out.rows) : NormSku(In, Out.rows[o]) = k}
            IN /\ Cardinality(at) = 1
               /\ \A o \in at : Out.rows[o] = In.rows[last]
       /\ \A o \in 1..Len(Out.rows) : NormSku(In, Out.rows[o]) \in keys

\* C12 witness: the input held two case variants of one SKU with different
\* payloads and a row with an empty SKU; the output is the later variant.
C12_Witness ==
  /\ Deduped
  /\ Len(In.rows) = 3
  /\ \E i, m \in 1..3 :
       /\ i < m
       /\ In.rows[i][sku_idx(In.header)] = "a1"
       /\ In.rows[m][sku_idx(In.header)] = "A1"
       /\ \E c \in 1..2 : c # sku_idx(In.header) /\ In.rows[i][c] # In.rows[m][c]
       /\ Out.rows = <<In.rows[m]>>
  /\ \E i \in 1..3 : NormSku(In, In.rows[i]) = ""

\* The reorderings of a row sequence that keep the relative order of rows
\* with equal normalized SKU.
Reorderings(file) ==
  LET n == Len(file.rows)
      perms == {f \in [1..n -> 1..n] : \A a, b \in 1..n : a # b => f[a] # f[b]}
      keeps == {f \in perms :
                  \A a, b \in 1..n :
                    (a < b /\ NormSku(file, file.rows[f[a]]) = NormSku(file, file.rows[f[b]]))
                      => f[a] < f[b]}
  IN {[i \in 1..n |-> file.rows[f[i]]] : f \in keeps}

\* C13: the data rows of the output are in ascending order of normalized
\* SKU, and every input that differs from this one only in the relative
\* order of rows with distinct normalized SKUs has the same output.
C13_DedupeOutputSortedAndOrderFree ==
  Deduped =>
    /\ \A a, b \in 1..Len(Out.rows) :
         a < b => KeyRank(NormSku(In, Out.rows[a])) < KeyRank(NormSku(In, Out.rows[b]))
    /\ \A rows \in Reorderings(In) :
         preprocess_dedupe_csv([header |-> In.header, rows |-> rows]) = Out.rows

\* C13 witness: an input whose keys arrive in descending order, with a
\* repeated key in between, was deduplicated into ascending order.
C13_Witness ==
  /\ Deduped
  /\ Len(In.rows) = 3
  /\ NormSku(In, In.rows[1]) = "c3"
  /\ NormSku(In, In.rows[2]) = "a1"
  /\ NormSku(In, In.rows[3]) = "c3"
  /\ Out.rows = <<In.rows[2], In.rows[3]>>

\* The bulk loader of job j has finished and the job's final counts are
\* committed; the uploaded file, the deduplicated file and the loader's
\* locals are still there.
Accounted(j) == task[j].pc = "truncate_after"

\* Data rows of j's upload whose SKU is empty after trimming, distinct
\* non-empty normalized SKUs of the upload, and the rows of the
\* deduplicated file that lack a sku or a name.
EmptySkuRows(j) ==
  LET up == fs[UploadPath(j)]
  IN {i \in 1..Len(up.rows) : NormSku(up, up.rows[i]) = ""}

UploadKeys(j) ==
  LET up == fs[UploadPath(j)]
  IN {NormSku(up, up.rows[i]) : i \in 1..Len(up.rows)} \ {""}

LackingRows(j) ==
  LET dd == fs[DedupedPath(j)]
  IN {i \in 1..Len(dd.rows) :
        \/ Mapped(dd.header, dd.rows[i]).sku = ""
        \/ Mapped(dd.header, dd.rows[i]).name = ""}

LacksNameColumn(j) ==
  LET up == fs[UploadPath(j)]
      hn == [i \in 1..Len(up.header) |-> Lower(Strip(up.header[i]))]
  IN up.exists /\ sku_idx(up.header) # 0 /\ IndexOf(hn, "name") = 0

\* C15: a job whose upload has a sku column but no name column never
\* reaches completed; when its execution ends it is failed with a non-null
\* error_message, and no row of the file is in the products table.
C15_MissingNameColumnFails ==
  \A j \in Jobs :
    LacksNameColumn(j) =>
      /\ jobs[j].status # "completed"
      /\ task[j].pc = "finally" =>
           /\ jobs[j].status = "failed"
           /\ jobs[j].error_message # "None"
      /\ Alone(j) => products = PriorProducts

\* C16: no job is failed because of the content of a data row: a row is
\* staged in normalised form or skipped, and the bulk load never raises on
\* a value of the row.
C16_NoRowAbortsJob ==
  \A j \in Jobs :
    /\ hist[j].fail_stage = "copy" => hist[j].error = "COPY to staging failed"
    /\ jobs[j].status = "failed" =>
         jobs[j].error_message # "invalid input syntax for type boolean"

\* C17: every price the bulk loader stages, and every price the import
\* writes to a product, is non-negative.
C17_PricesNonNegative ==
  /\ \A i \in 1..Len(staging) : staging[i].price >= 0
  /\ \A j \in Jobs : \A i \in 1..Len(hist[j].staged) : hist[j].staged[i].price >= 0
  /\ \A p \in products : p.price >= 0

\* C18: in every state in which a job is completed its eta_seconds is 0 or
\* null (-1 stands for null).
C18_EtaClearedOnCompletion ==
  \A j \in Jobs : jobs[j].status = "completed" => jobs[j].eta_seconds \in {0, -1}

\* C18 witness: a job is completed with eta_seconds 0 although the positive
\* ETA of its last progress checkpoint was still stored when the completion
\* was written.
C18_Witness ==
  \E j \in Jobs :
    /\ jobs[j].status = "completed"
    /\ hist[j].positive_eta
    /\ hist[j].stale_eta
    /\ jobs[j].eta_seconds = 0

\* C19: in every committed state in which a job is failed, its
\* error_message and its completed_at are both non-null, whichever handler
\* set failed.
C19_FailedHasMessageAndTime ==
  \A j \in Jobs :
    jobs[j].status = "failed" =>
      jobs[j].error_message # "None" /\ jobs[j].completed_at

\* C20: in every state where a job is pending, parsing, validating,
\* importing or completed, its error_message is null.
C20_MessageOnlyWhenFailed ==
  \A j \in Jobs :
    jobs[j].status \in {"pending", "parsing", "validating", "importing", "completed"}
      => jobs[j].error_message = "None"

\* C20 witness: one job was failed by the pipeline's handler in the copy
\* stage and carries its message, while another has completed with a null
\* error_message.
C20_Witness ==
  \E j, k \in Jobs :
    /\ jobs[j].status = "failed"
    /\ hist[j].fail_stage = "copy"
    /\ jobs[j].error_message = hist[j].error
    /\ jobs[j].error_message # "None"
    /\ jobs[k].status = "completed"
    /\ jobs[k].error_message = "None"

\* A chunk of job j is copied to staging in this step.
CopiesChunk(j) == hist'[j].staged # hist[j].staged

\* merge_staging_to_main is called for job j in this step.
MergeStarts(j) == ~hist[j].merge_attempted /\ hist'[j].merge_attempted

\* C21: within one job, a chunk is copied to staging only after
\* preprocess_dedupe_csv has consumed the whole input and written its
\* output, and merge_staging_to_main starts only after every row was read
\* and the last chunk, the final partial one included, was copied; no chunk
\* is copied once the merge has started.
C21_StagesStrictlyOrdered ==
  [][\A j \in Jobs :
       /\ CopiesChunk(j) =>
            /\ task[j].deduped_file
            /\ fs[DedupedPath(j)].exists
            /\ fs[DedupedPath(j)].rows = preprocess_dedupe_csv(fs[UploadPath(j)])
            /\ ~hist[j].merge_attempted
       /\ MergeStarts(j) =>
            /\ task[j].pos > Len(task[j].rows)
            /\ task[j].batch_rows = << >>
            /\ task[j].processed = task[j].total_records]_vars

\* C21 witness: a job's merge was started after a full chunk and a final
\* partial chunk had been copied.
C21_Witness ==
  \E j \in Jobs :
    /\ hist[j].merge_attempted
    /\ Len(hist[j].staged) = batch_size + 1
    /\ task[j].total_records = batch_size + 1

\* C22: total_records is 0 while the job is pending or parsing; it is
\* written with the transition to validating, as the number of data rows of
\* the deduplicated file (the number of distinct non-empty normalized SKUs
\* of the upload), and no later step changes it.
C22_TotalRecordsSetOnce ==
  /\ [](\A j \in Jobs :
          jobs[j].status \in {"pending", "parsing"} => jobs[j].total_records = 0)
  /\ [][\A j \in Jobs :
          jobs'[j].total_records # jobs[j].total_records =>
            /\ jobs[j].status = "parsing"
            /\ jobs'[j].status = "validating"
            /\ jobs'[j].total_records = Len(fs[DedupedPath(j)].rows)
            /\ jobs'[j].total_records = Cardinality(UploadKeys(j))]_vars
  /\ [][\A j \in Jobs :
          (jobs[j].status = "parsing" /\ jobs'[j].status = "validating") =>
            jobs'[j].total_records = Cardinality(UploadKeys(j))]_vars

\* C22 witness: a job is completed with the total_records that was written
\* at validating, three deduplicated rows out of a four-row upload.
C22_Witness ==
  \E j \in Jobs :
    /\ jobs[j].status = "completed"
    /\ task[j].pc = "truncate_after"
    /\ jobs[j].total_records = 3
    /\ Len(fs[UploadPath(j)].rows) = 4
    /\ Cardinality(UploadKeys(j)) = 3

\* ------------------------------------------ one worker, unreliable tracker
\* tasks.py:380-389: the commit of the failure raises in its turn; the
\* handler logs it and the job row keeps what was last committed.
PersistFailureFails(j) ==
  /\ task[j].pc = "except"
  /\ task' = [task EXCEPT ![j].pc = "finally"]
  /\ UNCHANGED <<jobs, products, staging, next_id, fs, request, queue, txn, emitted, deliveries, hist>>

\* The steps of one execution of process_csv_import other than the call
\* of preprocess_dedupe_csv.
PipelineRest(j) ==
  \/ TaskStart(j)
  \/ EnsureStaging(j)
  \/ TruncateStaging(j)
  \/ StagingSetupFail(j)
  \/ Validate(j)
  \/ StartImporting(j)
  \/ LoadRow(j)
  \/ FlushRemainder(j)
  \/ MergeBegin(j)
  \/ MergeRow(j)
  \/ MergeCommit(j)
  \/ MergeFail(j)
  \/ Finalize(j)
  \/ TruncateAfter(j)
  \/ TruncateAfterFail(j)
  \/ TriggerCompleted(j)
  \/ HandleException(j)
  \/ Cleanup(j)

NextFaulty ==
  \/ \E file \in Files : UploadCreate(1, file)
  \/ DispatchOk(1)
  \/ DispatchFail(1)
  \/ Dedupe(1)
  \/ PipelineRest(1)
  \/ PersistFailureFails(1)

\* The worker keeps running: a dispatched task is taken up and every step
\* of process_csv_import that can be taken is taken. Dedupe(1) is enabled
\* exactly when the task is at the call of preprocess_dedupe_csv, so its
\* weak fairness is written out as: the task is not at that call for ever.
SpecFaulty ==
  /\ Init /\ [][NextFaulty]_vars
  /\ WF_vars(PipelineRest(1) \/ PersistFailureFails(1))
  /\ []<>(task[1].pc # "dedupe")

\* C23: every job whose pipeline has started eventually reaches completed
\* or failed, whatever fails on the way, an error while persisting the
\* failure included.
C23_StartedJobTerminates ==
  \A j \in Jobs :
    (jobs[j].status \in {"parsing", "validating", "importing"})
      ~> (jobs[j].status \in Terminal)

\* C24: when scheduling the task failed inside upload_csv, the job is
\* committed as failed with a non-null error_message, the caller got an
\* error response, and the pipeline never runs for that job.
C24_DispatchErrorFailsJob ==
  \A j \in Jobs :
    request[j] = "raised_500" =>
      /\ jobs[j].status = "failed"
      /\ jobs[j].error_message # "None"
      /\ j \notin queue
      /\ task[j] = IdleTask
      /\ ~jobs[j].started_at

\* C24 witness: a request ended with the error response while another job,
\* dispatched normally, has run its pipeline to the end.
C24_Witness ==
  \E j, k \in Jobs :
    /\ request[j] = "raised_500"
    /\ jobs[j].status = "failed"
    /\ request[k] = "returned_201"
    /\ task[k].pc = "done"

Attempt(k, outcome) ==
  /\ deliveries[k].state = "ready"
  /\ deliveries' = [deliveries EXCEPT ![k] = send_webhook(@, outcome)]
  /\ UNCHANGED <<jobs, products, staging, next_id, fs, request, queue, task, txn, emitted, hist>>

\* api/imports.py:53-56 with webhook_service.py:31-34: the webhook lookup
\* raises inside trigger_webhook, which logs it; no delivery is created
\* and upload_csv goes on.
UploadCreateLookupFails(j, file) ==
  /\ request[j] = "none"
  /\ \A k \in Jobs : k < j => request[k] # "none"
  /\ jobs' = [jobs EXCEPT ![j] = [NoJob EXCEPT !.status = "pending"]]
  /\ fs' = WriteFile(fs, UploadPath(j), file)
  /\ emitted' = [emitted EXCEPT ![j].ImportStarted = @ + 1]
  /\ request' = [request EXCEPT ![j] = "created"]
  /\ UNCHANGED <<products, staging, next_id, queue, task, txn, deliveries, hist>>

\* The lookup error leaves trigger_webhook and reaches the failure handler
\* of process_csv_import.
TriggerCompletedLookupRaises(j) ==
  /\ task[j].pc = "webhook"
  /\ emitted' = [emitted EXCEPT ![j].ImportCompleted = @ + 1]
  /\ task' = [task EXCEPT ![j] = Raise(@, "webhook lookup failed")]
  /\ hist' = [hist EXCEPT ![j].payload =
                 [total_records |-> task[j].total_records,
                  processed_records |-> task[j].processed]]
  /\ UNCHANGED <<jobs, products, staging, next_id, fs, request, queue, txn, deliveries>>

\* tasks.py:361-376 with webhook_service.py:31-34: the webhook lookup raises
\* inside trigger_webhook, which logs it; process_csv_import goes on to its
\* finally block.
TriggerCompletedLookupFails(j) ==
  /\ task[j].pc = "webhook"
  /\ emitted' = [emitted EXCEPT ![j].ImportCompleted = @ + 1]
  /\ task' = [task EXCEPT ![j].pc = "finally"]
  /\ hist' = [hist EXCEPT ![j].payload =
                 [total_records |-> task[j].total_records,
                  processed_records |-> task[j].processed]]
  /\ UNCHANGED <<jobs, products, staging, next_id, fs, request, queue, txn, deliveries>>

NextNotify ==
  \/ \E file \in Files : UploadCreate(1, file)
  \/ \E file \in Files : UploadCreateLookupFails(1, file)
  \/ DispatchOk(1)
  \/ DispatchFail(1)
  \/ Dedupe(1)
  \/ PipelineRest(1)
  \/ TriggerCompletedLookupFails(1)
  \/ \E k \in DeliveryKeys, outcome \in Outcomes : Attempt(k, outcome)

\* The server keeps running: its event loop goes on running the deliveries
\* that are ready (each of them ends within max_retries + 1 attempts, so
\* none is passed over for ever).
SpecNotify ==
  /\ Init /\ [][NextNotify]_vars
  /\ WF_vars(\E k \in DeliveryKeys, outcome \in Outcomes : Attempt(k, outcome))

\* C26: one delivery makes at most 4 HTTP attempts; the waits before the
\* retries are 1, 2 and 4 seconds; nothing follows a 2xx response; and
\* after the 3rd retry has failed the delivery ends, without raising.
C26_RetryPolicy ==
  /\ [](\A k \in DeliveryKeys :
          LET d == deliveries[k]
          IN /\ d.attempts <= 4
             /\ d.retry_count <= 3
             /\ d.waits = SubSeq(<<1, 2, 4>>, 1, d.retry_count)
             /\ d.state \in {"none", "ready", "delivered", "gave_up", "abandoned"}
             /\ d.state = "ready" => d.attempts = d.retry_count
             /\ d.state = "delivered" => d.attempts = d.retry_count + 1 /\ d.response = "2xx"
             /\ d.state = "gave_up" => d.attempts = 4 /\ d.retry_count = 3)
  /\ [][\A k \in DeliveryKeys :
          deliveries[k].state \in {"delivered", "gave_up"} =>
            deliveries'[k] = deliveries[k]]_vars

\* C26 witness: one delivery has given up after four failed attempts and
\* waits of 1, 2 and 4 seconds, another was delivered at its third attempt.
C26_Witness ==
  \E k, l \in DeliveryKeys :
    /\ deliveries[k].state = "gave_up"
    /\ deliveries[k].attempts = 4
    /\ deliveries[k].waits = <<1, 2, 4>>
    /\ deliveries[l].state = "delivered"
    /\ deliveries[l].attempts = 3
    /\ deliveries[l].waits = <<1, 2>>

\* C27: no step of the notifier (a trigger, with or without a failing
\* webhook lookup, or a delivery attempt with any outcome) changes the row
\* of an existing ImportJob, and a job for which ImportCompleted was
\* triggered is and stays completed.
C27_NotifierNeverFailsJob ==
  /\ [][(deliveries' # deliveries \/ emitted' # emitted) =>
          \A j \in Jobs : jobs[j].status # "absent" => jobs'[j] = jobs[j]]_vars
  /\ [](\A j \in Jobs :
          emitted[j].ImportCompleted > 0 =>
            jobs[j].status = "completed" /\ jobs[j].error_message = "None")

\* C27 witness: a job has ended completed although its ImportStarted
\* delivery ran out of retries and its ImportCompleted trigger created no
\* delivery at all.
C27_Witness ==
  /\ task[1].pc = "done"
  /\ jobs[1].status = "completed"
  /\ deliveries[<<1, "ImportStarted", "w1">>].state = "gave_up"
  /\ deliveries[<<1, "ImportStarted", "w2">>].response = "error"
  /\ emitted[1].ImportCompleted = 1
  /\ deliveries[<<1, "ImportCompleted", "w1">>].state = "none"

\* C28: for every event passed to trigger_webhook, every enabled webhook
\* whose event_types is empty or holds the event type eventually gets at
\* least one HTTP attempt that runs to a response or an error, once its
\* delivery was created (stated for job 1, the job of this specification);
\* a disabled or non-matching webhook never gets one.
C28_EveryMatchingWebhookAttempted ==
  /\ \A e \in EventTypes : \A w \in matching_webhooks(e) :
       (deliveries[<<1, e, w>>].state # "none")
         ~> (deliveries[<<1, e, w>>].attempts >= 1)
  /\ [](\A k \in DeliveryKeys :
          k[3] \notin matching_webhooks(k[2]) => deliveries[k] = NoDelivery)

\* C29: at each progress checkpoint after a chunk load the stored
\* eta_seconds is floor(elapsed / processed * remaining) for the elapsed
\* time of that checkpoint, with remaining clamped at 0, and it is null (-1)
\* exactly when processed is zero; it is not null when processed > 0, even
\* if the elapsed time is zero.
C29_EtaFormula ==
  [][\A j \in Jobs :
       CopiesChunk(j) =>
         LET processed == jobs'[j].processed_records
             left == jobs'[j].total_records - processed
             remaining == IF left > 0 THEN left ELSE 0
         IN \E elapsed \in Elapsed :
              jobs'[j].eta_seconds =
                IF processed = 0
                THEN -1
                ELSE (elapsed * remaining) \div processed]_vars

\* C30: the file preprocess_dedupe_csv writes is comma-delimited, whichever
\* of the four delimiters was detected in the input.
C30_OutputCommaDelimited ==
  Deduped => Out.delimiter = ","

\* The upload of job j starts with the UTF-8 signature, followed by a header
\* holding sku and name; the upload of job j holds bytes that are not valid
\* UTF-8.
SignedUpload(j) ==
  LET up == fs[UploadPath(j)]
  IN /\ up.exists
     /\ Len(up.header) >= 2
     /\ up.header[1] = "<EF BB BF>sku"
     /\ IndexOf(up.header, "name") # 0

UndecodableUpload(j) == fs[UploadPath(j)].exists /\ ~Decodes(fs[UploadPath(j)])

\* C31: the encoding of the input is resolved by trying UTF-8 with
\* signature, UTF-8 and a permissive single-byte fallback: the deduplicator
\* recognises the sku column of a file that starts with a UTF-8 byte-order
\* mark, and reads a file holding bytes that are not valid UTF-8, so neither
\* file fails the job in the deduplicator.
C31_EncodingResolved ==
  \A j \in Jobs :
    SignedUpload(j) \/ UndecodableUpload(j) => hist[j].fail_stage # "dedupe"

\* The column the priority list sku, product_sku, id, code selects in a
\* header read as text: 0 when no name of the list occurs.
PriorityColumn(header) ==
  LET hn == [i \in 1..Len(header) |-> Lower(Strip(header[i]))]
  IN IF IndexOf(hn, "sku") # 0 THEN IndexOf(hn, "sku")
     ELSE IF IndexOf(hn, "product_sku") # 0 THEN IndexOf(hn, "product_sku")
     ELSE IF IndexOf(hn, "id") # 0 THEN IndexOf(hn, "id")
     ELSE IndexOf(hn, "code")

\* The normalized keys of the rows of a file in column c, in row order.
ColumnKeys(file, c) == [r \in 1..Len(file.rows) |-> Lower(Strip(file.rows[r][c]))]

NoSkuColumnText == "Could not find SKU column in CSV header"

C33_CompletedCountsAgree ==
  /\ [](\A j \in Jobs :
          jobs[j].status = "completed" =>
            /\ jobs[j].processed_records = jobs[j].total_records
            /\ Len(hist[j].staged) <= jobs[j].total_records
            /\ task[j].pc # "done" =>
                 /\ task[j].skipped = Cardinality(LackingRows(j))
                 /\ Len(hist[j].staged) = jobs[j].total_records - task[j].skipped)
  /\ [][\A j \in Jobs :
          jobs[j].status = "completed" =>
            /\ jobs'[j].processed_records = jobs[j].processed_records
            /\ jobs'[j].total_records = jobs[j].total_records
            /\ hist'[j].staged = hist[j].staged]_vars

\* C33 witness: a completed job counted three rows, skipped the one without
\* a name after the last checkpoint and copied the other two.
C33_Witness ==
  \E j \in Jobs :
    /\ jobs[j].status = "completed"
    /\ task[j].pc = "finally"
    /\ jobs[j].total_records = 3
    /\ jobs[j].processed_records = 3
    /\ task[j].skipped = 1
    /\ Len(hist[j].staged) = 2
    /\ Mapped(task[j].header, task[j].rows[3]).name = ""

\* ------------------------------- process_csv_import without an ImportJob
\* tasks.py:108-109: a process_csv_import message arrives whose
\* import_job_id names no ImportJob row; file_path names an existing file.
InvokeUnknown(j, file) ==
  /\ jobs[j].status = "absent"
  /\ request[j] = "none"
  /\ j \notin queue
  /\ task[j].pc = "idle"
  /\ ~fs[UploadPath(j)].exists
  /\ queue' = queue \cup {j}
  /\ fs' = WriteFile(fs, UploadPath(j), file)
  /\ UNCHANGED <<jobs, products, staging, next_id, request, task, txn, emitted, deliveries, hist>>

\* A return that leaves the function without running the finally block.
TaskNotFoundLeavesFile(j) ==
  /\ j \in queue
  /\ task[j].pc = "idle"
  /\ jobs[j].status = "absent"
  /\ queue' = queue \ {j}
  /\ task' = [task EXCEPT ![j].pc = "done"]
  /\ UNCHANGED <<jobs, products, staging, next_id, fs, request, txn, emitted, deliveries, hist>>

\* tasks.py:120-129: the lookup finds no row and the function returns from
\* inside the try block, which passes control to the finally block.
TaskNotFound(j) ==
  /\ j \in queue
  /\ task[j].pc = "idle"
  /\ jobs[j].status = "absent"
  /\ queue' = queue \ {j}
  /\ task' = [task EXCEPT ![j].pc = "finally"]
  /\ UNCHANGED <<jobs, products, staging, next_id, fs, request, txn, emitted, deliveries, hist>>

\* Job 1 is uploaded and imported while process_csv_import is invoked with
\* the id 2, for which no ImportJob exists.
NextUnknown ==
  \/ \E file \in Files : UploadCreate(1, file)
  \/ DispatchOk(1)
  \/ DispatchFail(1)
  \/ Dedupe(1)
  \/ PipelineRest(1)
  \/ \E file \in Files : InvokeUnknown(2, file)
  \/ TaskNotFound(2)
  \/ Cleanup(2)

SpecUnknown == Init /\ [][NextUnknown]_vars

\* A step of the execution of process_csv_import for the id j.
TaskStep(j) == task'[j] # task[j]

\* C34: an execution of process_csv_import for an id without an ImportJob
\* never enters the import stages, and none of its steps changes an
\* ImportJob record, the staging table, the products table, the webhook
\* events or any file other than the one at file_path, which is deleted
\* when the execution ends.
C34_UnknownJobOnlyDeletesFile ==
  /\ [](\A j \in Jobs :
          jobs[j].status = "absent" =>
            /\ task[j].pc \in {"idle", "finally", "done"}
            /\ task[j].pc = "done" => ~fs[UploadPath(j)].exists)
  /\ [][\A j \in Jobs :
          jobs[j].status = "absent" /\ TaskStep(j) =>
            /\ jobs' = jobs
            /\ products' = products
            /\ staging' = staging
            /\ next_id' = next_id
            /\ txn' = txn
            /\ emitted' = emitted
            /\ deliveries' = deliveries
            /\ \A p \in Paths \ {UploadPath(j)} : fs'[p] = fs[p]]_vars

\* C34 witness: the execution for the unknown id 2 has ended and its file
\* is gone, while job 1 is importing with rows in the staging table.
C34_Witness ==
  /\ jobs[2].status = "absent"
  /\ task[2].pc = "done"
  /\ ~fs[UploadPath(2)].exists
  /\ jobs[1].status = "importing"
  /\ staging # << >>

\* C35: in upload_csv the ImportStarted event is emitted and the upload is
\* written to its temporary file before the task is dispatched: when the
\* dispatch is about to happen both are done and no task is queued, and no
\* task is ever queued or run without them; when the dispatch failed, the
\* job is failed, its ImportStarted event was emitted, and its temporary
\* upload file exists in every later state.
C35_StartedEmittedBeforeDispatch ==
  \A j \in Jobs :
    /\ request[j] = "created" =>
         /\ emitted[j].ImportStarted = 1
         /\ fs[UploadPath(j)].exists
         /\ j \notin queue
         /\ task[j].pc = "idle"
    /\ j \in queue \/ task[j].pc # "idle" =>
         /\ request[j] = "returned_201"
         /\ emitted[j].ImportStarted = 1
    /\ request[j] = "raised_500" =>
         /\ jobs[j].status = "failed"
         /\ emitted[j].ImportStarted = 1
         /\ fs[UploadPath(j)].exists

\* C35 witness: the dispatch of a job failed; long after, when the other
\* job's task has ended and removed its own files, the failed job still has
\* its emitted ImportStarted event, a delivery created for it, and its
\* upload file.
C35_Witness ==
  \E j, k \in Jobs :
    /\ request[j] = "raised_500"
    /\ jobs[j].status = "failed"
    /\ emitted[j].ImportStarted = 1
    /\ deliveries[<<j, "ImportStarted", "w1">>].state = "ready"
    /\ fs[UploadPath(j)].exists
    /\ task[k].pc = "done"
    /\ ~fs[UploadPath(k)].exists

====
